---- MODULE Spec2Model ----
(***************************************************************************)
(* Model of tools/MSAuthExport/MSAuthExportScript.py: the one-shot export  *)
(* of the accounts table of a PhoneFactor database to otpauth:// URIs.     *)
(*                                                                         *)
(* Text is a sequence of code points, each written as a one-character      *)
(* string; the one non-ASCII code point of the model is written "U+4E2D".  *)
(* A value read from the database or held by a Python global is a record   *)
(* [kind, s]: kind "None" (SQL NULL / Python None), "str" (text s), "int"  *)
(* (a non-zero number stored in a column) or "unset" (global not bound).   *)
(***************************************************************************)
EXTENDS Integers, Sequences, FiniteSets, TLC

VARIABLES
    pc,             \* position in the script
    dbExists,       \* os.path.exists(DB_PATH)
    table,          \* the accounts table, in rowid order
    conn,           \* "none" | "open" | "closed"
    rows,           \* cursor.fetchall()
    idx,            \* 1-based position of the row loop
    row,            \* name, username, secret_key, account_type of the last unpacked row
    secret,         \* global secret
    label,          \* global label
    algorithm,      \* global algorithm
    issuer_encoded, \* global issuer_encoded
    otpauth_url,    \* global otpauth_url
    otpauth_urls,   \* the list of URIs built so far
    skipped,        \* indices whose "skip" line was printed
    fileExists,     \* OUTPUT_FILE exists
    fileContent,    \* code points of OUTPUT_FILE
    handler,        \* except clause that ran: "none" | "sqlite3.Error" | "Exception"
    raisedAt,       \* statement that raised: "none" | "connect" | "query" | "row" | "open" | "write"
    exitCode        \* -1 while running, else the process exit status

vars == <<pc, dbExists, table, conn, rows, idx, row, secret, label, algorithm,
          issuer_encoded, otpauth_url, otpauth_urls, skipped, fileExists,
          fileContent, handler, raisedAt, exitCode>>

(***************************************************************************)
(* Bounds of the model.                                                    *)
(***************************************************************************)
MaxRows == 3
MaxB64Len == 8
MaxJunkLen == 4
MaxSecretLen == 2
MaxNameLen == 2

(***************************************************************************)
(* Values.                                                                 *)
(***************************************************************************)
None == [kind |-> "None", s |-> <<>>]
Unset == [kind |-> "unset", s |-> <<>>]
Num == [kind |-> "int", s |-> <<>>]
Str(t) == [kind |-> "str", s |-> t]

Range(f) == {f[i] : i \in DOMAIN f}
Max(a, b) == IF a >= b THEN a ELSE b
IndexOf(seq, c) == CHOOSE i \in DOMAIN seq : seq[i] = c

RECURSIVE Pow2(_)
Pow2(n) == IF n = 0 THEN 1 ELSE 2 * Pow2(n - 1)

RECURSIVE Flatten(_)
Flatten(ss) == IF ss = <<>> THEN <<>> ELSE Head(ss) \o Flatten(Tail(ss))

SeqsUpTo(S, lo, hi) == UNION {[1..n -> S] : n \in lo..hi}

(***************************************************************************)
(* Character tables.                                                       *)
(***************************************************************************)
UpperLetters == <<"A", "B", "C", "D", "E", "F", "G", "H", "I", "J", "K", "L", "M",
                  "N", "O", "P", "Q", "R", "S", "T", "U", "V", "W", "X", "Y", "Z">>
LowerLetters == <<"a", "b", "c", "d", "e", "f", "g", "h", "i", "j", "k", "l", "m",
                  "n", "o", "p", "q", "r", "s", "t", "u", "v", "w", "x", "y", "z">>
Digits == <<"0", "1", "2", "3", "4", "5", "6", "7", "8", "9">>
HexDigits == <<"0", "1", "2", "3", "4", "5", "6", "7", "8", "9", "A", "B", "C", "D", "E", "F">>

base64_alphabet == UpperLetters \o LowerLetters \o Digits \o <<"+", "/">>
base32_alphabet == UpperLetters \o <<"2", "3", "4", "5", "6", "7">>

NonAscii == {"U+4E2D"}

\* UTF-8 encoding of one code point.
Utf8(c) ==
    IF c \in Range(UpperLetters) THEN <<64 + IndexOf(UpperLetters, c)>>
    ELSE IF c \in Range(LowerLetters) THEN <<96 + IndexOf(LowerLetters, c)>>
    ELSE IF c \in Range(Digits) THEN <<47 + IndexOf(Digits, c)>>
    ELSE CASE c = "\t" -> <<9>>
           [] c = "\n" -> <<10>>
           [] c = "\r" -> <<13>>
           [] c = " " -> <<32>>
           [] c = "!" -> <<33>>
           [] c = "+" -> <<43>>
           [] c = "-" -> <<45>>
           [] c = "." -> <<46>>
           [] c = "/" -> <<47>>
           [] c = ":" -> <<58>>
           [] c = "=" -> <<61>>
           [] c = "@" -> <<64>>
           [] c = "_" -> <<95>>
           [] c = "~" -> <<126>>
           [] c = "U+4E2D" -> <<228, 184, 173>>

\* str.upper() on one code point.
UpperChar(c) ==
    IF c \in Range(LowerLetters) THEN UpperLetters[IndexOf(LowerLetters, c)] ELSE c

upper(t) == [i \in DOMAIN t |-> UpperChar(t[i])]

\* str.replace(old, '') for a one-character old.
RECURSIVE replace(_, _)
replace(t, old) ==
    IF t = <<>> THEN <<>>
    ELSE IF Head(t) = old THEN replace(Tail(t), old)
    ELSE <<Head(t)>> \o replace(Tail(t), old)

\* .replace(' ', '').replace('\t', '').replace('\n', '').replace('\r', '')
StripWhitespace(t) == replace(replace(replace(replace(t, " "), "\t"), "\n"), "\r")

(***************************************************************************)
(* urllib.parse.quote(string) with the default safe='/'.                   *)
(***************************************************************************)
AlwaysSafe == Range(UpperLetters) \cup Range(LowerLetters) \cup Range(Digits)
                \cup {"_", ".", "-", "~"}

PercentByte(b) == <<"%", HexDigits[(b \div 16) + 1], HexDigits[(b % 16) + 1]>>

QuoteCharSafe(c, safe) ==
    IF c \in AlwaysSafe \cup safe THEN <<c>>
    ELSE Flatten([i \in DOMAIN Utf8(c) |-> PercentByte(Utf8(c)[i])])

QuoteChar(c) == QuoteCharSafe(c, {"/"})

quote(t) == Flatten([i \in DOMAIN t |-> QuoteChar(t[i])])

(***************************************************************************)
(* base64.b64decode(s): binascii.a2b_base64 in its default, non-strict     *)
(* mode.  Characters outside the alphabet are discarded; a non-ASCII       *)
(* character, or a data length that leaves a quad open, raises.            *)
(***************************************************************************)
Raised == [ok |-> FALSE, bytes |-> <<>>]
Decoded(out) == [ok |-> TRUE, bytes |-> out]

RECURSIVE a2b_base64(_, _, _, _, _)
a2b_base64(t, quad_pos, leftchar, pads, out) ==
    IF t = <<>> THEN (IF quad_pos # 0 THEN Raised ELSE Decoded(out))
    ELSE LET c == Head(t) IN
      IF c = "=" THEN
          IF quad_pos >= 2 /\ quad_pos + pads + 1 >= 4 THEN Decoded(out)
          ELSE a2b_base64(Tail(t), quad_pos, leftchar,
                          IF quad_pos >= 2 THEN pads + 1 ELSE pads, out)
      ELSE IF c \notin Range(base64_alphabet) THEN
          a2b_base64(Tail(t), quad_pos, leftchar, pads, out)
      ELSE LET v == IndexOf(base64_alphabet, c) - 1 IN
          CASE quad_pos = 0 -> a2b_base64(Tail(t), 1, v, 0, out)
            [] quad_pos = 1 -> a2b_base64(Tail(t), 2, v % 16, 0,
                                          Append(out, leftchar * 4 + (v \div 16)))
            [] quad_pos = 2 -> a2b_base64(Tail(t), 3, v % 4, 0,
                                          Append(out, leftchar * 16 + (v \div 4)))
            [] quad_pos = 3 -> a2b_base64(Tail(t), 0, 0, 0,
                                          Append(out, leftchar * 64 + v))

b64decode(t) ==
    IF \E i \in DOMAIN t : t[i] \in NonAscii THEN Raised
    ELSE a2b_base64(t, 0, 0, 0, <<>>)

(***************************************************************************)
(* Python's unbounded int, as its binary digits, most significant first.   *)
(***************************************************************************)
Zeros(k) == [i \in 1..k |-> 0]
PadLeft(bits, n) == Zeros(Max(n - Len(bits), 0)) \o bits
ByteBits(b) == [i \in 1..8 |-> (b \div Pow2(8 - i)) % 2]
Shl(bits, k) == bits \o Zeros(k)
Shr(bits, k) == SubSeq(bits, 1, Len(bits) - k)
BitOr(a, b) ==
    LET n == Max(Len(a), Len(b))
        A == PadLeft(a, n)
        B == PadLeft(b, n)
    IN  [i \in 1..n |-> IF A[i] = 1 \/ B[i] = 1 THEN 1 ELSE 0]
\* x & 0x1F, as a number.
And1F(bits) ==
    LET p == PadLeft(bits, 5)
        n == Len(p)
    IN  16 * p[n - 4] + 8 * p[n - 3] + 4 * p[n - 2] + 2 * p[n - 1] + p[n]

(***************************************************************************)
(* base64_to_base32: the re-encoding loop and the function around it.      *)
(***************************************************************************)
\* while bit_count >= 5: ...
RECURSIVE EmitGroups(_, _, _)
EmitGroups(bits, bit_count, result) ==
    IF bit_count >= 5
    THEN LET bc == bit_count - 5
             index == And1F(Shr(bits, bc))
         IN  EmitGroups(bits, bc, Append(result, base32_alphabet[index + 1]))
    ELSE [bit_count |-> bit_count, result |-> result]

\* for byte in decoded_bytes: ...
RECURSIVE ByteLoop(_, _, _, _)
ByteLoop(bytes, bits, bit_count, result) ==
    IF bytes = <<>> THEN [bits |-> bits, bit_count |-> bit_count, result |-> result]
    ELSE LET b2 == BitOr(Shl(bits, 8), ByteBits(Head(bytes)))
             e == EmitGroups(b2, bit_count + 8, result)
         IN  ByteLoop(Tail(bytes), b2, e.bit_count, e.result)

\* if bit_count > 0: index = (bits << (5 - bit_count)) & 0x1F
TailGroupNoShift(bits, bit_count) == And1F(bits)

TailGroup(bits, bit_count) == And1F(Shl(bits, 5 - bit_count))

Base32Encode(decoded_bytes) ==
    LET l == ByteLoop(decoded_bytes, <<>>, 0, <<>>)
    IN  IF l.bit_count > 0
        THEN Append(l.result, base32_alphabet[TailGroup(l.bits, l.bit_count) + 1])
        ELSE l.result

base64_to_base32(base64_str) ==
    LET d == b64decode(base64_str)
    IN  IF d.ok THEN Str(Base32Encode(d.bytes)) ELSE None

(***************************************************************************)
(* The query: WHERE oath_secret_key IS NOT NULL AND oath_secret_key != ''  *)
(* ORDER BY account_type, name, username (NULL first, text by memcmp of    *)
(* its UTF-8 bytes; the order of rows with equal keys is not determined).  *)
(***************************************************************************)
Rec(n, u, k, t) == [name |-> n, username |-> u, oath_secret_key |-> k, account_type |-> t]

QualifiesNotNull(r) == r.oath_secret_key # None

Qualifies(r) == r.oath_secret_key # None /\ r.oath_secret_key # Str(<<>>)

Utf8Seq(t) == Flatten([i \in DOMAIN t |-> Utf8(t[i])])

RECURSIVE BytesLE(_, _)
BytesLE(a, b) ==
    IF a = <<>> THEN TRUE
    ELSE IF b = <<>> THEN FALSE
    ELSE IF Head(a) # Head(b) THEN Head(a) < Head(b)
    ELSE BytesLE(Tail(a), Tail(b))

\* -1, 0, 1: SQLite's comparison of two values that are NULL or text.
SqlCompare(x, y) ==
    IF x = y THEN 0
    ELSE IF x = None THEN -1
    ELSE IF y = None THEN 1
    ELSE IF BytesLE(Utf8Seq(x.s), Utf8Seq(y.s)) THEN -1 ELSE 1

OrderByLE(r1, r2) ==
    IF r1.account_type # r2.account_type THEN r1.account_type < r2.account_type
    ELSE IF SqlCompare(r1.name, r2.name) # 0 THEN SqlCompare(r1.name, r2.name) < 0
    ELSE SqlCompare(r1.username, r2.username) <= 0

Orderings(n) == {f \in [1..n -> 1..n] : \A i, j \in 1..n : f[i] = f[j] => i = j}

\* Every result the SELECT may return for a table.
FetchAll(t) ==
    LET q == SelectSeq(t, Qualifies)
        n == Len(q)
    IN  {[i \in 1..n |-> q[f[i]]] : f \in
            {g \in Orderings(n) : \A i \in 1..(n - 1) : OrderByLE(q[g[i]], q[g[i + 1]])}}

(***************************************************************************)
(* The per-row transform of the loop body.                                 *)
(***************************************************************************)
Lit_scheme == <<"o", "t", "p", "a", "u", "t", "h", ":", "/", "/", "t", "o", "t", "p", "/">>
Lit_secret == <<"?", "s", "e", "c", "r", "e", "t", "=">>
Lit_params == <<"&", "d", "i", "g", "i", "t", "s", "=", "6", "&", "p", "e", "r", "i", "o", "d",
                "=", "3", "0", "&", "a", "l", "g", "o", "r", "i", "t", "h", "m", "=">>
Lit_issuer == <<"&", "i", "s", "s", "u", "e", "r", "=">>
Lit_Unknown == <<"U", "n", "k", "n", "o", "w", "n">>
Lit_SHA256 == <<"S", "H", "A", "2", "5", "6">>
Lit_SHA1 == <<"S", "H", "A", "1">>

\* x or default, for x None or text.
OrElse(x, default) == IF x = None \/ x = Str(<<>>) THEN default ELSE x.s

\* The secret branch on account_type; None when the conversion failed.
RowSecretNoUpper(account_type, secret_key) ==
    IF account_type = 1
    THEN base64_to_base32(StripWhitespace(secret_key))
    ELSE Str(StripWhitespace(secret_key))

RowSecret(account_type, secret_key) ==
    IF account_type = 1
    THEN base64_to_base32(StripWhitespace(secret_key))
    ELSE Str(upper(StripWhitespace(secret_key)))

RowIssuer(name) == OrElse(name, Lit_Unknown)
RowAccount(username) == OrElse(username, <<>>)

RowLabelAlwaysColon(name, username) ==
    quote(RowIssuer(name)) \o <<":">> \o quote(RowAccount(username))

RowLabel(name, username) ==
    IF RowAccount(username) # <<>>
    THEN quote(RowIssuer(name)) \o <<":">> \o quote(RowAccount(username))
    ELSE quote(RowIssuer(name))

RowAlgorithm(account_type) == IF account_type = 2 THEN Lit_SHA256 ELSE Lit_SHA1

RowUrl(lbl, sec, alg, iss) ==
    Lit_scheme \o lbl \o Lit_secret \o sec \o Lit_params \o alg \o Lit_issuer \o iss

(***************************************************************************)
(* Inputs.                                                                 *)
(***************************************************************************)
SecretChars == {"a", "B", "1", "=", " ", "\t", "\n", "\r", "U+4E2D"}
B64DataChars == {"V", "/"}
B64JunkChars == {"A", "/", "=", "!"}
NameChars == {"a", ":", "/", " ", "\n", "U+4E2D"}

ValidSecret == Str(<<"M", "Q", "=", "=">>)
BadBase64 == Str(<<"a">>)
NameA == Str(<<"a">>)
NameB == Str(<<"B", ":">>)
UserB == Str(<<"b", "@">>)

NameValues == {None} \cup {Str(s) : s \in SeqsUpTo(NameChars, 0, MaxNameLen)}
AccountTypes == {0, 1, 2, 3}

\* Base64 text: data characters followed by zero to two pad characters, and
\* short strings that mix data, pad and foreign characters.
Base64Secrets ==
    {d \o p : d \in SeqsUpTo(B64DataChars, 0, MaxB64Len),
              p \in {<<>>, <<"=">>, <<"=", "=">>}}
      \cup SeqsUpTo(B64JunkChars, 0, MaxJunkLen)

\* Single-row tables that vary the stored secret.
SecretRecords ==
    {Rec(NameA, None, Str(s), t) :
        s \in SeqsUpTo(SecretChars, 0, MaxSecretLen), t \in AccountTypes}
      \cup {Rec(NameA, None, Str(s), 1) : s \in Base64Secrets}

\* Single-row tables that vary name and username.
LabelRecords ==
    {Rec(n, u, ValidSecret, t) :
        n \in NameValues, u \in {None, Str(<<>>), UserB}, t \in AccountTypes}
      \cup {Rec(n, u, ValidSecret, t) :
        n \in {None, Str(<<>>), NameA}, u \in NameValues, t \in AccountTypes}

\* Rows of the multi-row tables.
SmallRecords ==
    { Rec(NameA, UserB, ValidSecret, 0),
      Rec(NameA, None, BadBase64, 1),
      Rec(NameB, UserB, BadBase64, 1),
      Rec(None, UserB, ValidSecret, 1),
      Rec(NameB, Str(<<>>), Str(<<"a", "\n", "1">>), 2),
      Rec(NameA, UserB, Num, 0),
      Rec(NameB, None, None, 0),
      Rec(NameA, UserB, Str(<<>>), 2) }

Tables ==
    SeqsUpTo(SmallRecords, 0, MaxRows)
      \cup {<<r>> : r \in SecretRecords \cup LabelRecords}

(***************************************************************************)
(* The script, top to bottom.                                              *)
(***************************************************************************)
Init ==
    /\ pc = "start"
    /\ dbExists \in BOOLEAN
    /\ table \in (IF dbExists THEN Tables ELSE {<<>>})
    /\ conn = "none"
    /\ rows = <<>>
    /\ idx = 0
    /\ row = Unset
    /\ secret = Unset
    /\ label = Unset
    /\ algorithm = Unset
    /\ issuer_encoded = Unset
    /\ otpauth_url = Unset
    /\ otpauth_urls = <<>>
    /\ skipped = <<>>
    /\ fileExists = FALSE
    /\ fileContent = <<>>
    /\ handler = "none"
    /\ raisedAt = "none"
    /\ exitCode = -1

\* sys.exit(code)
Exit(code) == pc' = "done" /\ exitCode' = code

\* except sqlite3.Error / except Exception: print, sys.exit(1)
ExceptExitZero(clause, at) == handler' = clause /\ raisedAt' = at /\ Exit(0)

Except(clause, at) == handler' = clause /\ raisedAt' = at /\ Exit(1)

\* if not os.path.exists(DB_PATH): ... sys.exit(1)
CheckDbPathFallThrough ==
    /\ pc = "start"
    /\ pc' = "connect"
    /\ UNCHANGED <<dbExists, table, conn, rows, idx, row, secret, label, algorithm,
                   issuer_encoded, otpauth_url, otpauth_urls, skipped, fileExists,
                   fileContent, handler, raisedAt, exitCode>>

CheckDbPath ==
    /\ pc = "start"
    /\ IF dbExists THEN pc' = "connect" /\ UNCHANGED exitCode ELSE Exit(1)
    /\ UNCHANGED <<dbExists, table, conn, rows, idx, row, secret, label, algorithm,
                   issuer_encoded, otpauth_url, otpauth_urls, skipped, fileExists,
                   fileContent, handler, raisedAt>>

\* conn = sqlite3.connect(DB_PATH); cursor = conn.cursor()
Connect ==
    /\ pc = "connect"
    /\ \/ conn' = "open" /\ pc' = "query" /\ UNCHANGED <<handler, raisedAt, exitCode>>
       \/ Except("sqlite3.Error", "connect") /\ UNCHANGED conn
    /\ UNCHANGED <<dbExists, table, rows, idx, row, secret, label, algorithm,
                   issuer_encoded, otpauth_url, otpauth_urls, skipped, fileExists,
                   fileContent>>

QueryNoEmptyCheck(result) ==
    /\ rows' = result
    /\ pc' = (IF result = <<>> THEN "write" ELSE "loop") /\ idx' = 1
    /\ UNCHANGED <<conn, exitCode, handler, raisedAt>>

\* cursor.execute(...); rows = cursor.fetchall(); if not rows: conn.close(); sys.exit(0)
QueryOk(result) ==
    /\ rows' = result
    /\ IF result = <<>>
       THEN conn' = "closed" /\ Exit(0) /\ UNCHANGED idx
       ELSE pc' = "loop" /\ idx' = 1 /\ UNCHANGED <<conn, exitCode>>
    /\ UNCHANGED <<handler, raisedAt>>

Query ==
    /\ pc = "query"
    /\ \/ \E result \in FetchAll(table) : QueryOk(result)
       \/ Except("sqlite3.Error", "query") /\ UNCHANGED <<conn, rows, idx>>
    /\ UNCHANGED <<dbExists, table, row, secret, label, algorithm, issuer_encoded,
                   otpauth_url, otpauth_urls, skipped, fileExists, fileContent>>

\* Loop bookkeeping: the next iteration, or the statement after the loop.
Advance ==
    /\ idx' = idx + 1
    /\ pc' = (IF idx = Len(rows) THEN "write" ELSE "loop")
    /\ UNCHANGED <<handler, raisedAt, exitCode>>

\* if secret is None: print(...); continue
SkipRowAbort ==
    /\ secret' = None
    /\ skipped' = Append(skipped, idx)
    /\ Except("Exception", "row")
    /\ UNCHANGED <<idx, label, algorithm, issuer_encoded, otpauth_url, otpauth_urls>>

SkipRow ==
    /\ secret' = None
    /\ skipped' = Append(skipped, idx)
    /\ Advance
    /\ UNCHANGED <<label, algorithm, issuer_encoded, otpauth_url, otpauth_urls>>

\* issuer ... otpauth_urls.append(otpauth_url)
EmitRow(r, sec) ==
    LET lbl == RowLabel(r.name, r.username)
        alg == RowAlgorithm(r.account_type)
        iss == quote(RowIssuer(r.name))
        url == RowUrl(lbl, sec.s, alg, iss)
    IN  /\ secret' = sec
        /\ label' = Str(lbl)
        /\ algorithm' = Str(alg)
        /\ issuer_encoded' = Str(iss)
        /\ otpauth_url' = Str(url)
        /\ otpauth_urls' = Append(otpauth_urls, url)
        /\ Advance
        /\ UNCHANGED skipped

\* One iteration of: for index, row in enumerate(rows, 1)
ProcessRow ==
    /\ pc = "loop"
    /\ row' = rows[idx]
    /\ IF rows[idx].oath_secret_key.kind # "str"
       THEN \* secret_key.replace raises: a number has no such method
            /\ Except("Exception", "row")
            /\ UNCHANGED <<idx, secret, label, algorithm, issuer_encoded, otpauth_url,
                           otpauth_urls, skipped>>
       ELSE LET sec == RowSecret(rows[idx].account_type, rows[idx].oath_secret_key.s)
            IN  IF sec = None THEN SkipRow ELSE EmitRow(rows[idx], sec)
    /\ UNCHANGED <<dbExists, table, conn, rows, fileExists, fileContent>>

\* for url in otpauth_urls: f.write(url + '\n')
WrittenReversed(urls) ==
    Flatten([i \in DOMAIN urls |-> urls[Len(urls) + 1 - i] \o <<"\n">>])

Written(urls) == Flatten([i \in DOMAIN urls |-> urls[i] \o <<"\n">>])

\* with open(OUTPUT_FILE, 'w', encoding='utf-8') as f: ...
WriteFile ==
    /\ pc = "write"
    /\ \/ /\ fileExists' = TRUE
          /\ fileContent' = Written(otpauth_urls)
          /\ pc' = "close"
          /\ UNCHANGED <<handler, raisedAt, exitCode>>
       \/ /\ Except("Exception", "open")
          /\ UNCHANGED <<fileExists, fileContent>>
       \/ \E k \in 0..(Len(otpauth_urls) - 1) :
          /\ fileExists' = TRUE
          /\ fileContent' = Written(SubSeq(otpauth_urls, 1, k))
          /\ Except("Exception", "write")
    /\ UNCHANGED <<dbExists, table, conn, rows, idx, row, secret, label, algorithm,
                   issuer_encoded, otpauth_url, otpauth_urls, skipped>>

\* conn.close(); the summary is printed and the script ends
CloseConn ==
    /\ pc = "close"
    /\ conn' = "closed"
    /\ Exit(0)
    /\ UNCHANGED <<dbExists, table, rows, idx, row, secret, label, algorithm,
                   issuer_encoded, otpauth_url, otpauth_urls, skipped, fileExists,
                   fileContent, handler, raisedAt>>

Next ==
    \/ CheckDbPath
    \/ Connect
    \/ Query
    \/ ProcessRow
    \/ WriteFile
    \/ CloseConn

Spec == Init /\ [][Next]_vars

(***************************************************************************)
(* Reference definitions used by the properties.                           *)
(***************************************************************************)
Base32Chars == Range(base32_alphabet)
Whitespace == {" ", "\t", "\n", "\r"}

\* RFC 4648 base32 of a byte sequence without the '=' padding: the bits of the
\* bytes, most significant first, followed by zero bits, cut into 5-bit groups.
Rfc4648Unpadded(bytes) ==
    LET n == Len(bytes)
        bit(j) == IF j <= 8 * n
                  THEN (bytes[((j - 1) \div 8) + 1] \div Pow2(7 - ((j - 1) % 8))) % 2
                  ELSE 0
        group(i) == 16 * bit(5 * i - 4) + 8 * bit(5 * i - 3) + 4 * bit(5 * i - 2)
                      + 2 * bit(5 * i - 1) + bit(5 * i)
    IN  [i \in 1..((8 * n + 4) \div 5) |-> base32_alphabet[group(i) + 1]]

\* The text of a file as its lines, each ended by a newline.
RECURSIVE Lines(_)
Lines(t) ==
    IF t = <<>> THEN <<>>
    ELSE IF \E k \in DOMAIN t : t[k] = "\n"
    THEN LET k == CHOOSE k \in DOMAIN t : t[k] = "\n" /\ \A j \in 1..(k - 1) : t[j] # "\n"
         IN  <<SubSeq(t, 1, k - 1)>> \o Lines(SubSeq(t, k + 1, Len(t)))
    ELSE <<t>>

\* The row is an account_type=1 row whose secret fails to decode.
DecodeFails(r) ==
    /\ r.account_type = 1
    /\ r.oath_secret_key.kind = "str"
    /\ ~b64decode(StripWhitespace(r.oath_secret_key.s)).ok

\* The globals of the loop body hold the transform of the last unpacked row.
RowTransformed == row # Unset /\ row.oath_secret_key.kind = "str"
RowEmitted == RowTransformed /\ secret.kind = "str"

\* The URI of a row that is emitted.
UrlOf(r) ==
    RowUrl(RowLabel(r.name, r.username),
           RowSecret(r.account_type, r.oath_secret_key.s).s,
           RowAlgorithm(r.account_type),
           quote(RowIssuer(r.name)))

ExpectedLines(rs) ==
    LET keep(r) == ~DecodeFails(r)
        kept == SelectSeq(rs, keep)
    IN  [i \in DOMAIN kept |-> UrlOf(kept[i])]

(***************************************************************************)
(* C1.  As claimed: whatever the account_type and the stored secret, the   *)
(* secret of an emitted URI holds only characters of the base32 alphabet.  *)
(***************************************************************************)
C1_SecretAlwaysBase32 ==
    RowEmitted => Range(secret.s) \subseteq Base32Chars

(***************************************************************************)
(* C1, amended.  The secret of an emitted URI holds only base32 characters *)
(* when account_type is 1, or when the stored secret holds nothing but     *)
(* spaces, tabs, newlines, carriage returns, ASCII letters and the digits  *)
(* 2 to 7.                                                                 *)
(***************************************************************************)
C1_SecretBase32WhenStoredBase32 ==
    (/\ RowEmitted
     /\ \/ row.account_type = 1
        \/ Range(row.oath_secret_key.s)
             \subseteq (Whitespace \cup Base32Chars \cup Range(LowerLetters)))
    => Range(secret.s) \subseteq Base32Chars

C1_Witness ==
    /\ RowEmitted
    /\ row.account_type = 0
    /\ row.oath_secret_key.s = <<"a", " ">>
    /\ secret.s = <<"A">>
    /\ otpauth_urls # <<>>

(***************************************************************************)
(* C2.  A base64 decode failure of an account_type=1 row is local to the   *)
(* row: the rows skipped so far are exactly the processed rows that fail   *)
(* to decode, every other processed row has its URI in the list, the run   *)
(* never aborts on a row that fails to decode, and a run in which nothing  *)
(* else raises processes every row, writes the file and exits with 0.      *)
(***************************************************************************)
C2_DecodeFailureLocalized ==
    rows # <<>> =>
        LET processed == [i \in 1..(idx - 1) |-> i]
            fails(i) == DecodeFails(rows[i])
        IN  /\ skipped = SelectSeq(processed, fails)
            /\ Len(otpauth_urls) = (idx - 1) - Len(skipped)
            /\ raisedAt = "row" => ~DecodeFails(rows[idx])
            /\ (pc = "done" /\ raisedAt = "none") =>
                  /\ exitCode = 0
                  /\ idx = Len(rows) + 1
                  /\ fileExists
                  /\ Len(Lines(fileContent)) = Len(rows) - Len(skipped)

C2_Witness ==
    /\ pc = "done"
    /\ exitCode = 0
    /\ Len(rows) = 3
    /\ skipped = <<1, 2>>
    /\ Len(otpauth_urls) = 1

(***************************************************************************)
(* C3.  When the database file is absent the run ends with status 1, no    *)
(* connection is ever opened and no output file is created.                *)
(***************************************************************************)
C3_MissingDatabase ==
    ~dbExists =>
        /\ pc \in {"start", "done"}
        /\ conn = "none"
        /\ ~fileExists
        /\ pc = "done" => exitCode = 1

C3_Witness == pc = "done" /\ ~dbExists /\ exitCode = 1

(***************************************************************************)
(* C4.  When no row of the table has a non-NULL, non-empty secret and the  *)
(* query itself succeeds, the run ends with status 0 and no output file.   *)
(***************************************************************************)
C4_NoQualifyingRows ==
    (/\ pc = "done"
     /\ dbExists
     /\ raisedAt \notin {"connect", "query"}
     /\ \A i \in DOMAIN table : table[i].oath_secret_key \in {None, Str(<<>>)})
    => (exitCode = 0 /\ ~fileExists)

C4_Witness ==
    /\ pc = "done"
    /\ exitCode = 0
    /\ conn = "closed"
    /\ Len(table) >= 2
    /\ \E i \in DOMAIN table : table[i].oath_secret_key = None
    /\ \E i \in DOMAIN table : table[i].oath_secret_key = Str(<<>>)
    /\ rows = <<>>

(***************************************************************************)
(* C5.  A failure of the database layer in connect or in execute/fetchall  *)
(* ends the run with status 1, through the sqlite3.Error clause, before    *)
(* any row is read and with no output file.                                *)
(***************************************************************************)
C5_DatabaseErrorExitsOne ==
    raisedAt \in {"connect", "query"} =>
        /\ pc = "done"
        /\ exitCode = 1
        /\ handler = "sqlite3.Error"
        /\ rows = <<>>
        /\ ~fileExists

C5_Witness == pc = "done" /\ raisedAt = "query" /\ conn = "open" /\ Len(table) >= 1

(***************************************************************************)
(* C6.  On a successful run the lines of the output file are the URIs of   *)
(* the rows of the query result that were not skipped, in the order of the *)
(* query result, each ended by a newline, and nothing else.                *)
(***************************************************************************)
C6_FileIsUrlsInOrder ==
    (pc = "done" /\ exitCode = 0 /\ rows # <<>>) =>
        /\ fileExists
        /\ Lines(fileContent) = ExpectedLines(rows)
        /\ fileContent # <<>> => fileContent[Len(fileContent)] = "\n"

C6_Witness ==
    /\ pc = "done"
    /\ exitCode = 0
    /\ Len(rows) = 3
    /\ skipped = <<2>>
    /\ Len(Lines(fileContent)) = 2
    /\ Lines(fileContent)[1] # Lines(fileContent)[2]

(***************************************************************************)
(* C7.  As claimed: on every path on which the connection was opened, the  *)
(* connection is closed when the process exits.                            *)
(***************************************************************************)
C7_ConnClosedAtExit ==
    (pc = "done" /\ conn # "none") => conn = "closed"

(***************************************************************************)
(* C8.  For an account_type=1 row whose cleaned secret decodes to n bytes, *)
(* the converted secret has ceil(8n/5) characters of the base32 alphabet   *)
(* and is the RFC 4648 base32 encoding of the bytes without padding.       *)
(***************************************************************************)
C8_Base32OfDecodedBytes ==
    (/\ RowTransformed
     /\ row.account_type = 1
     /\ b64decode(StripWhitespace(row.oath_secret_key.s)).ok)
    => LET bytes == b64decode(StripWhitespace(row.oath_secret_key.s)).bytes
       IN  /\ secret.kind = "str"
           /\ Len(secret.s) = (8 * Len(bytes) + 4) \div 5
           /\ Range(secret.s) \subseteq Base32Chars
           /\ secret.s = Rfc4648Unpadded(bytes)

C8_Witness ==
    /\ RowEmitted
    /\ row.account_type = 1
    /\ Len(b64decode(StripWhitespace(row.oath_secret_key.s)).bytes) = 4
    /\ secret.s = <<"K", "7", "2", "X", "7", "7", "I">>

(***************************************************************************)
(* C9.  The URI of an emitted row is                                       *)
(* otpauth://totp/<label>?secret=<secret>&digits=6&period=30               *)
(* &algorithm=<algorithm>&issuer=<issuer_encoded>, with issuer the name or *)
(* Unknown when the name is NULL or empty, label the encoded issuer alone, *)
(* without a colon, when the username is NULL or empty and encoded issuer, *)
(* colon, encoded username otherwise, and algorithm SHA256 for             *)
(* account_type 2 and SHA1 for every other account_type.                   *)
(***************************************************************************)
C9_UrlShape ==
    RowEmitted =>
        LET issuer == IF row.name = None \/ row.name.s = <<>> THEN Lit_Unknown ELSE row.name.s
            noUser == row.username = None \/ row.username.s = <<>>
            expLabel == IF noUser THEN quote(issuer)
                        ELSE quote(issuer) \o <<":">> \o quote(row.username.s)
            expAlg == IF row.account_type = 2 THEN Lit_SHA256 ELSE Lit_SHA1
        IN  /\ otpauth_url.s = Lit_scheme \o expLabel \o Lit_secret \o secret.s
                                 \o Lit_params \o expAlg \o Lit_issuer \o quote(issuer)
            /\ noUser => ":" \notin Range(expLabel)
            /\ label.s = expLabel
            /\ algorithm.s = expAlg
            /\ otpauth_url.s = otpauth_urls[Len(otpauth_urls)]

C9_Witness ==
    /\ RowEmitted
    /\ row.account_type = 2
    /\ row.name = Str(<<":">>)
    /\ row.username = None
    /\ label.s = <<"%", "3", "A">>
    /\ algorithm.s = Lit_SHA256

(***************************************************************************)
(* C10.  The output file comes into existence only at the write step,      *)
(* after the whole row loop; at exit it exists exactly when the query      *)
(* returned a row and nothing raised before the file was opened; and when  *)
(* every returned row was skipped and nothing raised, the file exists with *)
(* zero lines and the exit status is 0.                                    *)
(***************************************************************************)
C10_FileCreatedOnlyAtWrite ==
    /\ fileExists => (pc \in {"close", "done"} /\ rows # <<>> /\ idx = Len(rows) + 1)
    /\ pc = "done" => (fileExists <=> (rows # <<>> /\ raisedAt \in {"none", "write"}))
    /\ (pc = "done" /\ rows # <<>> /\ raisedAt = "none" /\ Len(skipped) = Len(rows)) =>
          (fileExists /\ fileContent = <<>> /\ exitCode = 0)

C10_Witness ==
    /\ pc = "done"
    /\ exitCode = 0
    /\ Len(rows) >= 2
    /\ Len(skipped) = Len(rows)
    /\ fileExists
    /\ fileContent = <<>>

====
